---- MODULE Spec2Model ----
(***************************************************************************)
(* create_datapoints.py: windowed aggregation of IP flows into per-address *)
(* datapoints, with one export thread per closed window.                   *)
(*                                                                         *)
(* Times are counted in ticks of 1/TicksPerSec second, so that the         *)
(* truncation int(float(rec.TIME_LAST)) is a real conversion.              *)
(* Python's None is the value None, outside the times and AS numbers.      *)
(* A Python float obtained by dividing integers is kept as the exact       *)
(* fraction [num, den] in lowest terms.                                    *)
(* The dict IPs is the sequence of its values in insertion order; the dict *)
(* ip_codes, which is only looked up, is a function. A thread's field      *)
(* shared tells whether its dict is the loop's dict object or another one. *)
(***************************************************************************)
EXTENDS Integers, Sequences, FiniteSets, TLC

\* ------------------------------------------------------------------ bounds
TicksPerSec == 2
MaxAggregation == 2
MaxTime == 6
MaxRecs == 5
MaxTableRecs == 3
MaxCalls == 2

\* --------------------------------------------------------- program values
None == -1
TCP == 6

\* the addresses of the model: two inside the configured networks (one private,
\* one public) and two outside (one private, one public)
InPri == "10.0.0.1"
InPub == "147.32.0.2"
OutPri == "192.168.1.1"
OutPub == "8.8.8.8"
Addr == {InPri, InPub, OutPri, OutPub}

\* ipaddress.ip_address(_ip).is_private
is_private(_ip) == _ip \in {InPri, OutPri}

\* the list get_networks() returns: each network is the set of its addresses
networks == << {InPri}, {InPub} >>

\* AS numbers the pyasn database can return
ASNs == {64500, 64501}

\* ------------------------------------------------------------- arithmetic
RECURSIVE GCD(_, _)
GCD(a, b) == IF b = 0 THEN a ELSE GCD(b, a % b)

\* the float n / d for integers n >= 0, d > 0
Frac(n, d) == LET g == GCD(n, d) IN [num |-> n \div g, den |-> d \div g]

\* the number n before any division
Whole(n) == [num |-> n, den |-> 1]

\* x += n on a number that may already be a float
FracAdd(x, n) == Frac(x.num + n * x.den, x.den)

\* x += y for a float y
FracPlus(x, y) == Frac(x.num * y.den + y.num * x.den, x.den * y.den)

\* x /= n (n # 0)
FracDiv(x, n) == Frac(x.num, x.den * n)

FracIsZero(x) == x.num = 0

\* a field that holds a list before pre_export and its length after
PyList(s) == [isList |-> TRUE, items |-> s, n |-> 0]
PyInt(k) == [isList |-> FALSE, items |-> << >>, n |-> k]

Range(s) == {s[k] : k \in 1..Len(s)}

\* "if x not in l: l.append(x)"
AppendNew(l, x) == IF x \in Range(l.items) THEN l ELSE PyList(Append(l.items, x))

\* ------------------------------------------------------------ DataPointIP
DataPointIP(ip) ==
  [ip |-> ip,
   n_flows |-> 0,
   n_packets |-> 0,
   n_bytes |-> 0,
   n_dest_ip_pri |-> PyList(<< >>),
   n_dest_ip_pub |-> PyList(<< >>),
   n_dest_asn |-> 0,
   n_dest_countries |-> 0,
   n_dest_ports |-> PyList(<< >>),
   tcp_udp_ratio_packets |-> Whole(0),
   tcp_udp_ratio_bytes |-> Whole(0),
   dir_ratio_packets |-> Whole(0),
   dir_ratio_bytes |-> Whole(0),
   avg_duration |-> Whole(0),
   avg_ttl |-> Whole(0)]

\* lines 127-135: the peer goes to the private or the public list, and then
\* (lines 134-135) to the public list whenever it is not there yet
update_dest_ip(self, _ip) ==
  LET s1 == IF is_private(_ip)
            THEN [self EXCEPT !.n_dest_ip_pri = AppendNew(@, _ip)]
            ELSE [self EXCEPT !.n_dest_ip_pub = AppendNew(@, _ip)]
  IN [s1 EXCEPT !.n_dest_ip_pub = AppendNew(@, _ip)]

\* a bug lines 123-125 could have: the reverse direction is left out
update_counts_forward(self, packets, packets_rev, bytes, bytes_rev) ==
  [self EXCEPT !.n_flows = @ + 1,
               !.n_packets = @ + packets,
               !.n_bytes = @ + bytes]

update_counts(self, packets, packets_rev, bytes, bytes_rev) ==
  [self EXCEPT !.n_flows = @ + 1,
               !.n_packets = @ + packets + packets_rev,
               !.n_bytes = @ + bytes + bytes_rev]

\* a bug lines 140-144 could have: the byte counts added to the packet sums
update_ratios_bytes(self, packets, packets_rev, bytes, bytes_rev, protocol) ==
  LET s1 == IF protocol = TCP
            THEN [self EXCEPT !.tcp_udp_ratio_packets = FracAdd(@, bytes + bytes_rev),
                              !.tcp_udp_ratio_bytes = FracAdd(@, bytes + bytes_rev)]
            ELSE self
  IN [s1 EXCEPT !.dir_ratio_packets = FracAdd(@, bytes),
                !.dir_ratio_bytes = FracAdd(@, bytes)]

update_ratios(self, packets, packets_rev, bytes, bytes_rev, protocol) ==
  LET s1 == IF protocol = TCP
            THEN [self EXCEPT !.tcp_udp_ratio_packets = FracAdd(@, packets + packets_rev),
                              !.tcp_udp_ratio_bytes = FracAdd(@, bytes + bytes_rev)]
            ELSE self
  IN [s1 EXCEPT !.dir_ratio_packets = FracAdd(@, packets),
                !.dir_ratio_bytes = FracAdd(@, bytes)]

\* DataPointIP.update; time_first and time_last in ticks
update(self, _ip, _port, packets, packets_rev, bytes, bytes_rev, protocol, time_first, time_last, ttl) ==
  LET s1 == update_counts(self, packets, packets_rev, bytes, bytes_rev)
      s2 == update_dest_ip(s1, _ip)
      s3 == [s2 EXCEPT !.n_dest_ports = AppendNew(@, _port)]
      s4 == update_ratios(s3, packets, packets_rev, bytes, bytes_rev, protocol)
  IN [s4 EXCEPT !.avg_duration = FracPlus(@, Frac(time_last - time_first, TicksPerSec)),
                !.avg_ttl = FracAdd(@, ttl)]

\* the pyasn database: asn[_ip] is asndb.lookup(_ip)[0] (None: no prefix covers
\* the address), and lookup raises on the addresses of fails
lookup_raises(asndb, _ip) == _ip \in asndb.fails

\* lines 177-181: the list comprehension appends until a lookup raises, and the
\* except clause keeps what was appended so far
looked_up(asndb, pub) ==
  LET bad == {k \in 1..Len(pub) : lookup_raises(asndb, pub[k])}
      stop == IF bad = {} THEN Len(pub) + 1
              ELSE CHOOSE k \in bad : \A j \in bad : k <= j
  IN SubSeq(pub, 1, stop - 1)

\* lines 177-186
count_asns(asndb, pub) ==
  LET _asns == {asndb.asn[_ip] : _ip \in Range(looked_up(asndb, pub))}
  IN IF None \in _asns THEN Cardinality(_asns) - 1 ELSE Cardinality(_asns)

\* lines 168-171: the four divisions in order; the first zero divisor raises
\* ZeroDivisionError and leaves the divisions before it done
pre_export_ratios(self) ==
  IF self.n_packets = 0 THEN [self |-> self, raised |-> TRUE]
  ELSE LET s1 == [self EXCEPT !.tcp_udp_ratio_packets = FracDiv(@, self.n_packets)]
       IN IF self.n_bytes = 0 THEN [self |-> s1, raised |-> TRUE]
          ELSE [self |-> [s1 EXCEPT !.tcp_udp_ratio_bytes = FracDiv(@, self.n_bytes),
                                    !.dir_ratio_packets = FracDiv(@, self.n_packets),
                                    !.dir_ratio_bytes = FracDiv(@, self.n_bytes)],
                raised |-> FALSE]

\* lines 176-207, for an active address
pre_export_active(self, asndb) ==
  [self EXCEPT !.n_dest_asn = count_asns(asndb, self.n_dest_ip_pub.items),
               !.n_dest_countries = -1,
               !.n_dest_ip_pub = PyInt(Len(@.items)),
               !.n_dest_ip_pri = PyInt(Len(@.items)),
               !.n_dest_ports = PyInt(Len(@.items)),
               !.avg_duration = FracDiv(@, self.n_flows),
               !.avg_ttl = FracDiv(@, self.n_flows)]

\* DataPointIP.pre_export: the object afterwards, and whether it raised.
\* (The attribute n_dest_ip that line 164 creates is read nowhere and not kept.)
pre_export(self, asndb) ==
  IF self.n_flows = 0
  THEN [self |-> [self EXCEPT !.n_dest_ports = PyInt(0)], raised |-> FALSE]
  ELSE LET r == pre_export_ratios(self)
       IN IF r.raised THEN r
          ELSE IF FracIsZero(r.self.dir_ratio_packets)
               THEN [self |-> [r.self EXCEPT !.n_flows = 0], raised |-> FALSE]
               ELSE [self |-> pre_export_active(r.self, asndb), raised |-> FALSE]

\* check_ip
check_ip(ip, nets) == \E k \in 1..Len(nets) : ip \in nets[k]

\* ------------------------------------------------------------- the tables
Has(tbl, ip) == \E k \in 1..Len(tbl) : tbl[k].ip = ip
Idx(tbl, ip) == CHOOSE k \in 1..Len(tbl) : tbl[k].ip = ip
Keys(tbl) == {tbl[k].ip : k \in 1..Len(tbl)}

\* int(float(rec.TIME_LAST)): whole seconds of a time in ticks
int_of(t) == t \div TicksPerSec

\* one call IPs[ip].update(...) of the main loop
Call(ip, _ip, _port, packets, packets_rev, bytes, bytes_rev, r) ==
  [ip |-> ip, _ip |-> _ip, _port |-> _port, packets |-> packets,
   packets_rev |-> packets_rev, bytes |-> bytes, bytes_rev |-> bytes_rev,
   protocol |-> r.PROTOCOL, time_first |-> r.TIME_FIRST,
   time_last |-> r.TIME_LAST, ttl |-> r.TTL]

src_call(r) == Call(r.SRC_IP, r.DST_IP, r.DST_PORT, r.PACKETS, r.PACKETS_REV,
                    r.BYTES, r.BYTES_REV, r)

\* a bug lines 623-634 could have: the counts are passed as for the source
dst_call_unswapped(r) == Call(r.DST_IP, r.SRC_IP, r.SRC_PORT, r.PACKETS, r.PACKETS_REV,
                              r.BYTES, r.BYTES_REV, r)

dst_call(r) == Call(r.DST_IP, r.SRC_IP, r.SRC_PORT, r.PACKETS_REV, r.PACKETS,
                    r.BYTES_REV, r.BYTES, r)

\* a bug lines 603-666 could have: the destination is not checked
update_calls_unfiltered(r) ==
  IF check_ip(r.SRC_IP, networks) THEN << src_call(r), dst_call(r) >>
  ELSE << dst_call(r) >>

\* lines 603-666: the update calls the loop makes for a record, in order
update_calls(r) ==
  IF check_ip(r.SRC_IP, networks) /\ check_ip(r.DST_IP, networks)
  THEN << src_call(r), dst_call(r) >>
  ELSE IF check_ip(r.SRC_IP, networks) THEN << src_call(r) >>
  ELSE IF check_ip(r.DST_IP, networks) THEN << dst_call(r) >>
  ELSE << >>

\* a bug lines 665-666 could have: no record leaves the turn of the loop early
discarded_never(r) == FALSE

\* lines 665-666: the record with neither address in the networks ends the
\* turn of the loop at "continue"
discarded(r) == update_calls(r) = << >>

\* a bug lines 607-620 could have: update is called in the else branch of
\* "if X not in IPs", so the record that creates an entry is not counted in it
apply_call_else(tbl, c) ==
  IF Has(tbl, c.ip)
  THEN [tbl EXCEPT ![Idx(tbl, c.ip)] =
          update(@, c._ip, c._port, c.packets, c.packets_rev, c.bytes,
                 c.bytes_rev, c.protocol, c.time_first, c.time_last, c.ttl)]
  ELSE Append(tbl, DataPointIP(c.ip))

\* "if X not in IPs: IPs[X] = DataPointIP(X)" and then "IPs[X].update(...)"
apply_call(tbl, c) ==
  LET t1 == IF Has(tbl, c.ip) THEN tbl ELSE Append(tbl, DataPointIP(c.ip))
      k == Idx(t1, c.ip)
  IN [t1 EXCEPT ![k] = update(@, c._ip, c._port, c.packets, c.packets_rev, c.bytes,
                              c.bytes_rev, c.protocol, c.time_first, c.time_last, c.ttl)]

RECURSIVE apply_calls(_, _)
apply_calls(tbl, cs) ==
  IF cs = << >> THEN tbl ELSE apply_calls(apply_call(tbl, Head(cs)), Tail(cs))

\* lines 603-664: the table after the record is folded in
record_flow(tbl, r) ==
  CHOOSE t \in {apply_calls(tbl, calls) : calls \in {update_calls(r)}} : TRUE

\* lines 596-597: the start of the first window
first_start(r) == int_of(r.TIME_LAST)

\* a bug line 681 could have: the next window starts at the record's time
next_start_at_record(start, W, r) == int_of(r.TIME_LAST)

\* line 681
next_start(start, W, r) == start + W

\* a bug line 673 could have: the dict itself is handed to the thread
same_dict(tbl) == [IPs |-> tbl, shared |-> TRUE]

\* line 673: copy.deepcopy(IPs), a new dict of new objects with the contents of
\* tbl; shared tells whether the result is the loop's dict object itself
deepcopy(tbl) == [IPs |-> tbl, shared |-> FALSE]

\* a write to the loop's dict object, as the threads holding that object see it
write_through(ths, tbl) ==
  [k \in DOMAIN ths |-> IF ths[k].shared THEN [ths[k] EXCEPT !.IPs = tbl] ELSE ths[k]]

\* a bug line 680 could have: the table is not emptied
clear_nothing(tbl) == tbl

\* line 680: IPs.clear()
clear(tbl) == << >>

\* a bug line 667 could have: the comparison is not strict
window_elapsed_or_reached(start, W, r) == (start + W) * TicksPerSec <= r.TIME_LAST

\* line 667
window_elapsed(start, W, r) == (start + W) * TicksPerSec < r.TIME_LAST

\* aggregate_interval: pre_export on each value in key order, up to the first
\* one that raises
RECURSIVE aggregate_from(_, _, _)
aggregate_from(tbl, k, asndb) ==
  IF k > Len(tbl) THEN [IPs |-> tbl, raised |-> FALSE]
  ELSE LET r == pre_export(tbl[k], asndb)
           t1 == [tbl EXCEPT ![k] = r.self]
       IN IF r.raised THEN [IPs |-> t1, raised |-> TRUE]
          ELSE aggregate_from(t1, k + 1, asndb)

aggregate_interval(tbl, asndb) == aggregate_from(tbl, 1, asndb)

\* ---------------------------------------------------------------- send_ts
\* get_ips, lines 444-446: the dict of the rows (id_ip, ip_address), a later
\* row of an address replacing an earlier one
ip_codes_of(rows) ==
  [a \in {rows[k][2] : k \in 1..Len(rows)} |->
     LET last == CHOOSE k \in 1..Len(rows) :
                   /\ rows[k][2] = a
                   /\ \A j \in 1..Len(rows) : rows[j][2] = a => j <= k
     IN rows[last][1]]

\* max(ip_codes.values()) + 1; max() of no values raises ValueError
max_code(codes) == CHOOSE m \in {codes[a] : a \in DOMAIN codes} :
                     \A a \in DOMAIN codes : codes[a] <= m

\* line 300: "%Y-%m-%d %H:%M:%S.%f" cut to hundredths, of a whole second
utc_format(sec) ==
  [day |-> sec \div 86400, hour |-> (sec % 86400) \div 3600,
   minute |-> (sec % 3600) \div 60, second |-> sec % 60, hundredths |-> 0]

\* lines 311-328: the values of one ad_metrics row
metrics_row(_t, code, dp) ==
  [time |-> _t, id_ip |-> code, n_flows |-> dp.n_flows, n_packets |-> dp.n_packets,
   n_bytes |-> dp.n_bytes, n_dest_ip_pri |-> dp.n_dest_ip_pri.n,
   n_dest_ip_pub |-> dp.n_dest_ip_pub.n, n_dest_asn |-> dp.n_dest_asn,
   n_dest_countries |-> dp.n_dest_countries, n_dest_ports |-> dp.n_dest_ports.n,
   tcp_udp_ratio_packets |-> dp.tcp_udp_ratio_packets,
   tcp_udp_ratio_bytes |-> dp.tcp_udp_ratio_bytes,
   dir_ratio_packets |-> dp.dir_ratio_packets,
   dir_ratio_bytes |-> dp.dir_ratio_bytes,
   avg_duration |-> dp.avg_duration, avg_ttl |-> dp.avg_ttl]

\* a bug lines 302-303 could have: the inactive addresses are not skipped
query_step_all(q, dp, _t) ==
  LET new == dp.ip \notin DOMAIN q.ip_codes
      code == IF new THEN q.next_ip_code ELSE q.ip_codes[dp.ip]
  IN [ip_codes |-> IF new
                   THEN [a \in DOMAIN q.ip_codes \cup {dp.ip} |->
                           IF a = dp.ip THEN code ELSE q.ip_codes[a]]
                   ELSE q.ip_codes,
      next_ip_code |-> IF new THEN q.next_ip_code + 1 ELSE q.next_ip_code,
      tmp |-> IF new THEN Append(q.tmp, << code, dp.ip >>) ELSE q.tmp,
      data |-> Append(q.data, metrics_row(_t, code, dp))]

\* lines 302-328: one turn of the loop over IPs; q holds ip_codes, next_ip_code,
\* tmp (the rows of the INSERT INTO ip_address) and data (the ad_metrics rows)
query_step(q, dp, _t) ==
  IF dp.n_flows = 0 THEN q
  ELSE LET new == dp.ip \notin DOMAIN q.ip_codes
           code == IF new THEN q.next_ip_code ELSE q.ip_codes[dp.ip]
       IN [ip_codes |-> IF new
                        THEN [a \in DOMAIN q.ip_codes \cup {dp.ip} |->
                                IF a = dp.ip THEN code ELSE q.ip_codes[a]]
                        ELSE q.ip_codes,
           next_ip_code |-> IF new THEN q.next_ip_code + 1 ELSE q.next_ip_code,
           tmp |-> IF new THEN Append(q.tmp, << code, dp.ip >>) ELSE q.tmp,
           data |-> Append(q.data, metrics_row(_t, code, dp))]

RECURSIVE queries_from(_, _, _, _)
queries_from(tbl, k, q, _t) ==
  IF k > Len(tbl) THEN q
  ELSE queries_from(tbl, k + 1, query_step(q, tbl[k], _t), _t)

\* lines 297-328
build_queries(tbl, codes, next, start) ==
  queries_from(tbl, 1, [ip_codes |-> codes, next_ip_code |-> next,
                        tmp |-> << >>, data |-> << >>], utc_format(start))

\* --------------------------------------------------------------- the state
VARIABLES
  mainpc,       \* "loop": in the while loop of main; "ended": past it
  Aggregation,  \* arg.Aggregation, seconds
  asndb,        \* the pyasn database
  IPs,          \* the table of the open window
  start_time,   \* start of the open window, whole seconds, or None
  i,            \* number of threads started
  threads,      \* the export threads, in the order they were started
  ip_address,   \* table ip_address of the database: rows (id_ip, ip_address)
  ad_metrics,   \* table ad_metrics of the database
  nrecs,        \* history: number of records received
  rec,          \* history: the record received last
  firstTime,    \* history: TIME_LAST of the first record received, or None
  lastChecked,  \* history: TIME_LAST of the last record that reached line 667
  spaced,       \* history: every record came less than a window after the one
                \* before it
  steady,       \* history: the records that reached line 667 came less than a
                \* window apart, the first less than a window after firstTime
  dp,           \* a single DataPointIP object under test
  dp_calls,     \* history: the update calls made on dp
  dp_pc         \* "live", "exported" (pre_export returned) or "raised"

vars == << mainpc, Aggregation, asndb, IPs, start_time, i, threads, ip_address,
           ad_metrics, nrecs, rec, firstTime, lastChecked, spaced, steady,
           dp, dp_calls, dp_pc >>

mainVars == << mainpc, Aggregation, IPs, start_time, i, threads, ip_address,
               ad_metrics, nrecs, rec, firstTime, lastChecked, spaced, steady >>
dpVars == << dp, dp_calls, dp_pc >>

\* ------------------------------------------------------------- the inputs
Counts == {0, 1}
Times == 0..MaxTime

\* the flows of the main loop's runs: both, one or none of the addresses in the
\* networks; packets one way over TCP, the other way over UDP (protocol 17),
\* or none at all
Payloads == { << 1, 0, 1, 0, TCP >>, << 0, 1, 0, 1, 17 >>, << 0, 0, 0, 0, TCP >> }
AddrPairs == { << InPri, InPub >>, << InPri, OutPub >>, << OutPri, InPub >>,
               << OutPub, OutPri >> }
Flow(pair, load, t) ==
  [SRC_IP |-> pair[1], DST_IP |-> pair[2], SRC_PORT |-> 53, DST_PORT |-> 80,
   PACKETS |-> load[1], PACKETS_REV |-> load[2], BYTES |-> load[3],
   BYTES_REV |-> load[4], PROTOCOL |-> load[5], TIME_FIRST |-> t,
   TIME_LAST |-> t, TTL |-> 64]

\* runs about the windows: every time, a flow with an address in the networks
\* or with none
WindowFlows == {Flow(pair, << 1, 0, 1, 0, TCP >>, t) :
                  pair \in { << InPri, OutPub >>, << OutPub, OutPri >> }, t \in Times}

\* runs about the tables: every pair and payload, at the start of the run or
\* more than a window later
TableFlows == {Flow(pair, load, t) :
                 pair \in AddrPairs, load \in Payloads, t \in {0, MaxTime}}

NoRec == Flow(<< "", "" >>, << 0, 0, 0, 0, 0 >>, None)

\* pyasn databases: every address to an AS number or to None, lookups raising
\* on some addresses
AsnDbs == [asn : [Addr -> ASNs \cup {None}], fails : SUBSET Addr]

\* the databases of the runs on one object: they differ on its peers
Peers == {OutPri, InPub, OutPub}
DpAsnDbs == {db \in AsnDbs : /\ db.asn[InPri] = None
                             /\ db.asn[OutPri] \in {None, 64501}
                             /\ db.asn[InPub] \in {None, 64500}
                             /\ db.fails \subseteq {InPub}}

\* the update calls of the runs on one object
DpCalls ==
  [_ip : Peers, _port : {80}, packets : Counts, packets_rev : Counts,
   bytes : Counts, bytes_rev : Counts, protocol : {TCP, 17}]
MainAsnDb == [asn |-> [a \in Addr |-> IF is_private(a) THEN None ELSE 64500],
              fails |-> {}]

\* contents of table ip_address when the program starts
Catalogs == { << >>, << << 1, InPub >> >> }

\* the same for the runs about the catalog: no row, an address of the
\* networks, or addresses outside them with the largest identifier first
SinkCatalogs == { << >>, << << 2, InPub >> >>, << << 3, OutPub >>, << 1, OutPri >> >> }

\* ------------------------------------------------------------------- Init
\* history of the update calls on dp: their number, the sums of their
\* arguments and the peers they named
NoCalls == [n |-> 0, packets |-> 0, bytes |-> 0, tcp_packets |-> 0, tcp_bytes |-> 0,
            fwd_packets |-> 0, fwd_bytes |-> 0, peers |-> {}]

NoCodes == [a \in {} |-> 0]

InitWith(catalogs) ==
  /\ mainpc = "loop"
  /\ Aggregation \in 1..MaxAggregation
  /\ asndb = MainAsnDb
  /\ IPs = << >>
  /\ start_time = None
  /\ i = 0
  /\ threads = << >>
  /\ ip_address \in catalogs
  /\ ad_metrics = << >>
  /\ nrecs = 0
  /\ rec = NoRec
  /\ firstTime = None
  /\ lastChecked = None
  /\ spaced = TRUE
  /\ steady = TRUE
  /\ dp = DataPointIP(InPri)
  /\ dp_calls = NoCalls
  /\ dp_pc = "live"

Init == InitWith(Catalogs)

\* ---------------------------------------------------------- the main loop
\* lines 669-679: the thread started on the dict arg it is handed; exc is the
\* exception that ended it, if one did. History: IPs0 is the table as handed
\* over, codes0 the dict get_ips returned
Thread(n, arg, start) ==
  [i |-> n, IPs |-> arg.IPs, shared |-> arg.shared, start_time |-> start,
   pc |-> "aggregate", ip_codes |-> NoCodes, next_ip_code |-> 0, tmp |-> << >>,
   data |-> << >>, exc |-> "", IPs0 |-> arg.IPs, codes0 |-> NoCodes]

\* history of the records that reach the check of line 667
Checked(r) == update_calls(r) # << >>
Gap(r) == IF lastChecked = None
          THEN r.TIME_LAST - (IF firstTime = None THEN r.TIME_LAST ELSE firstTime)
          ELSE r.TIME_LAST - lastChecked

History(r) ==
  /\ nrecs' = nrecs + 1
  /\ rec' = r
  /\ firstTime' = IF firstTime = None THEN r.TIME_LAST ELSE firstTime
  /\ lastChecked' = IF Checked(r) THEN r.TIME_LAST ELSE lastChecked
  /\ spaced' = (spaced /\ (nrecs > 0 =>
                              r.TIME_LAST - rec.TIME_LAST < Aggregation * TicksPerSec))
  /\ steady' = (steady /\ (Checked(r) => Gap(r) < Aggregation * TicksPerSec))

\* a bug lines 669-679 could have: the loop joins the threads it started
can_recv_after_join ==
  /\ mainpc = "loop"
  /\ \A t \in 1..Len(threads) : threads[t].pc \in {"done", "raised"}

\* lines 585-587 and 669-679: the loop is back at trap.recv() as soon as
\* Thread.start() has returned; it joins no thread and takes no lock
can_recv == mainpc = "loop"

\* lines 587-683: one turn of the while loop on a record of the source, which
\* delivers records in non-decreasing order of TIME_LAST
Recv(r) ==
  /\ r.TIME_FIRST <= r.TIME_LAST
  /\ can_recv
  /\ rec.TIME_LAST <= r.TIME_LAST
  /\ \E start \in {IF start_time = None THEN first_start(r) ELSE start_time} :
       IF discarded(r)
       THEN \* line 666: continue
            /\ start_time' = start
            /\ UNCHANGED << IPs, i, threads >>
       ELSE \* lines 603-664, then the check of line 667
            \E tbl \in {record_flow(IPs, r)} :
              IF window_elapsed(start, Aggregation, r)
              THEN /\ threads' = write_through(
                                    Append(write_through(threads, tbl),
                                           Thread(i, deepcopy(tbl), start)),
                                    clear(tbl))
                   /\ IPs' = clear(tbl)
                   /\ start_time' = next_start(start, Aggregation, r)
                   /\ i' = i + 1
              ELSE /\ IPs' = tbl
                   /\ threads' = write_through(threads, tbl)
                   /\ start_time' = start
                   /\ UNCHANGED i
  /\ History(r)
  /\ UNCHANGED << mainpc, Aggregation, asndb, ip_address, ad_metrics, dpVars >>

\* a bug line 688 could have: the table still open is handed to a last thread
after_loop_flush(ths, tbl, start, n) ==
  IF tbl = << >> THEN ths ELSE Append(ths, Thread(n, deepcopy(tbl), start))

\* lines 685-688: after the loop only trap.finalize() runs; the threads are
\* those the loop started
after_loop(ths, tbl, start, n) == ths

\* a bug lines 593-594 could have: the threads are joined before the break
can_break_after_join ==
  /\ mainpc = "loop"
  /\ \A t \in 1..Len(threads) : threads[t].pc \in {"done", "raised"}

\* lines 587-594: the loop, waiting in trap.recv(), gets the terminal record
\* and breaks, whatever the threads are doing
can_break == mainpc = "loop"

\* lines 593-594 and 688: the terminal record ends the loop
EndOfStream ==
  /\ can_break
  /\ mainpc' = "ended"
  /\ threads' = after_loop(threads, IPs, start_time, i)
  /\ UNCHANGED << Aggregation, asndb, IPs, start_time, i, ip_address,
                  ad_metrics, nrecs, rec, firstTime, lastChecked, spaced, steady,
                  dpVars >>

\* lines 685-688: KeyboardInterrupt while the loop waits in trap.recv()
Interrupt ==
  /\ mainpc = "loop"
  /\ mainpc' = "ended"
  /\ threads' = after_loop(threads, IPs, start_time, i)
  /\ UNCHANGED << Aggregation, asndb, IPs, start_time, i, ip_address,
                  ad_metrics, nrecs, rec, firstTime, lastChecked, spaced, steady,
                  dpVars >>

\* ------------------------------------------------------ the export threads
LoopVarsUnchanged ==
  UNCHANGED << mainpc, Aggregation, asndb, start_time, i, nrecs, rec,
               firstTime, lastChecked, spaced, steady, dpVars >>

ThreadVarsUnchanged == LoopVarsUnchanged /\ UNCHANGED IPs

\* paralel_func, line 408: aggregate_interval changes the objects of the
\* thread's dict in place
Aggregate(t) ==
  /\ threads[t].pc = "aggregate"
  /\ LET a == aggregate_interval(threads[t].IPs, asndb)
         ths == [threads EXCEPT ![t].IPs = a.IPs,
                                ![t].pc = IF a.raised THEN "raised" ELSE "get_ips",
                                ![t].exc = IF a.raised THEN "ZeroDivisionError"
                                           ELSE ""]
     IN IF threads[t].shared
        THEN threads' = write_through(ths, a.IPs) /\ IPs' = a.IPs
        ELSE threads' = ths /\ IPs' = IPs
  /\ UNCHANGED << ip_address, ad_metrics >>
  /\ LoopVarsUnchanged

\* send_ts, lines 290-293, and get_ips
GetIps(t) ==
  /\ threads[t].pc = "get_ips"
  /\ LET codes == ip_codes_of(ip_address)
     IN threads' =
          IF threads[t].IPs = << >> THEN [threads EXCEPT ![t].pc = "done"]
          ELSE IF ip_address = << >>
               THEN [threads EXCEPT ![t].pc = "raised", ![t].exc = "ValueError"]
          ELSE [threads EXCEPT ![t].ip_codes = codes,
                               ![t].codes0 = codes,
                               ![t].next_ip_code = max_code(codes) + 1,
                               ![t].pc = "build"]
  /\ UNCHANGED << ip_address, ad_metrics >>
  /\ ThreadVarsUnchanged

\* send_ts, lines 297-331; the log call of line 329 reads data[1] and raises
\* IndexError when data is empty
BuildQueries(t) ==
  /\ threads[t].pc = "build"
  /\ LET q == build_queries(threads[t].IPs, threads[t].ip_codes,
                            threads[t].next_ip_code, threads[t].start_time)
     IN threads' = [threads EXCEPT ![t].ip_codes = q.ip_codes,
                                   ![t].next_ip_code = q.next_ip_code,
                                   ![t].tmp = q.tmp,
                                   ![t].data = q.data,
                                   ![t].pc = IF q.data = << >> THEN "raised"
                                             ELSE IF q.tmp # << >> THEN "push_ips"
                                             ELSE "push_data",
                                   ![t].exc = IF q.data = << >> THEN "IndexError"
                                              ELSE ""]
  /\ UNCHANGED << ip_address, ad_metrics >>
  /\ ThreadVarsUnchanged

\* send_ts, lines 332-350
PushIps(t) ==
  /\ threads[t].pc = "push_ips"
  /\ ip_address' = ip_address \o threads[t].tmp
  /\ threads' = [threads EXCEPT ![t].pc = "push_data"]
  /\ UNCHANGED ad_metrics
  /\ ThreadVarsUnchanged

\* send_ts, lines 352-371
PushData(t) ==
  /\ threads[t].pc = "push_data"
  /\ ad_metrics' = ad_metrics \o threads[t].data
  /\ threads' = [threads EXCEPT ![t].pc = "done"]
  /\ UNCHANGED ip_address
  /\ ThreadVarsUnchanged

\* a bug lines 334-349 and 355-370 could have: the failed statement is tried
\* again
db_error_retried(th) == [th EXCEPT !.exc = "OperationalError"]

\* psycopg2.connect, execute or commit raises: nothing in get_ips, send_ts or
\* paralel_func catches it, and the thread ends
db_error(th) == [th EXCEPT !.pc = "raised", !.exc = "OperationalError"]

\* the database fails a thread in get_ips or in one of the pushes of send_ts
DbError(t) ==
  /\ threads[t].pc \in {"get_ips", "push_ips", "push_data"}
  /\ threads' = [threads EXCEPT ![t] = db_error(@)]
  /\ UNCHANGED << ip_address, ad_metrics >>
  /\ ThreadVarsUnchanged

ThreadStep ==
  \/ \E t \in 1..Len(threads) : Aggregate(t)
  \/ \E t \in 1..Len(threads) : GetIps(t)
  \/ \E t \in 1..Len(threads) : BuildQueries(t)
  \/ \E t \in 1..Len(threads) : PushIps(t)
  \/ \E t \in 1..Len(threads) : PushData(t)
  \/ \E t \in 1..Len(threads) : DbError(t)

NextTables ==
  \/ \E r \in TableFlows : nrecs < MaxTableRecs /\ Recv(r)
  \/ EndOfStream
  \/ Interrupt
  \/ ThreadStep

InitTables == Init /\ Aggregation = 1 /\ ip_address # << >>

SpecTables == InitTables /\ [][NextTables]_vars

\* the runs about the catalog: as the runs about the tables, from the
\* catalogs of SinkCatalogs
InitSink == InitWith(SinkCatalogs) /\ Aggregation = 1

SpecSink == InitSink /\ [][NextTables]_vars

Next ==
  \/ \E r \in WindowFlows : nrecs < MaxRecs /\ Recv(r)
  \/ EndOfStream
  \/ Interrupt
  \/ ThreadStep

Spec == Init /\ [][Next]_vars

\* ------------------------------------------------- one DataPointIP object
\* a call dp.update(...)
DpUpdate(c) ==
  /\ dp_pc = "live"
  /\ dp_calls.n < MaxCalls
  /\ dp' = update(dp, c._ip, c._port, c.packets, c.packets_rev, c.bytes, c.bytes_rev,
                  c.protocol, 0, 0, 64)
  /\ dp_calls' =
       [n |-> dp_calls.n + 1,
        packets |-> dp_calls.packets + c.packets + c.packets_rev,
        bytes |-> dp_calls.bytes + c.bytes + c.bytes_rev,
        tcp_packets |-> dp_calls.tcp_packets
                        + (IF c.protocol = TCP THEN c.packets + c.packets_rev ELSE 0),
        tcp_bytes |-> dp_calls.tcp_bytes
                      + (IF c.protocol = TCP THEN c.bytes + c.bytes_rev ELSE 0),
        fwd_packets |-> dp_calls.fwd_packets + c.packets,
        fwd_bytes |-> dp_calls.fwd_bytes + c.bytes,
        peers |-> dp_calls.peers \cup {c._ip}]
  /\ UNCHANGED << dp_pc, asndb, mainVars >>

\* the call dp.pre_export(asndb, geoip2_reader) of aggregate_interval, on an
\* object that update was called on
DpPreExport(db) ==
  /\ dp_pc = "live"
  /\ dp_calls.n > 0
  /\ LET r == pre_export(dp, db)
     IN /\ dp' = r.self
        /\ dp_pc' = IF r.raised THEN "raised" ELSE "exported"
  /\ asndb' = db
  /\ UNCHANGED << dp_calls, mainVars >>

NextDP ==
  \/ \E c \in DpCalls : DpUpdate(c)
  \/ \E db \in DpAsnDbs : DpPreExport(db)

InitDP == Init /\ Aggregation = 1 /\ ip_address = << >>

SpecDP == InitDP /\ [][NextDP]_vars

\* ================================================================ claims
WTicks == Aggregation * TicksPerSec

\* window boundaries int(firstTime) + k*W that lie strictly before time t
BoundariesBefore(t) ==
  {k \in 1..(MaxTime + 1) : (int_of(firstTime) + k * Aggregation) * TicksPerSec < t}

\* C1, as stated: when every record comes less than a window after the one
\* before it, the number of threads started is
\* floor((lastTime - firstTime) / W).
C1_AsStated ==
  (nrecs > 0 /\ spaced) => i = (rec.TIME_LAST - firstTime) \div WTicks

\* C1, amended: when the records with an address in the networks come less than
\* a window apart (the first of them less than a window after the first record
\* received), the number of threads started is the number of k >= 1 with
\* int(firstTime) + k*W < lastTime, lastTime being the end-time of the last
\* record with an address in the networks; it is 0 while there is no such record.
C1_Closures ==
  steady => i = (IF lastChecked = None THEN 0
                 ELSE Cardinality(BoundariesBefore(lastChecked)))

C1_Witness == steady /\ i = 2 /\ nrecs = MaxRecs

\* C2, as stated: the k-th thread is handed firstTime + (k-1)*W, the first one
\* the end-time of the first record received.
C2_AsStated ==
  \A k \in 1..Len(threads) :
    threads[k].start_time * TicksPerSec = firstTime + (k - 1) * WTicks

\* C2, amended: the k-th thread is handed int(firstTime) + (k-1)*W, the whole
\* seconds of the first record's end-time plus k-1 window lengths; the window
\* starts handed out are strictly increasing, so no two threads get the same.
C2_Starts ==
  /\ Len(threads) = i
  /\ \A k \in 1..Len(threads) :
       /\ threads[k].start_time = int_of(firstTime) + (k - 1) * Aggregation
       /\ threads[k].i = k - 1
  /\ \A j, k \in 1..Len(threads) :
       j < k => threads[j].start_time < threads[k].start_time
  /\ (start_time # None => start_time = int_of(firstTime) + i * Aggregation)

C2_Witness == Len(threads) >= 2 /\ firstTime % TicksPerSec # 0

\* a step of the loop on a record, and whether it started a thread
Received == nrecs' = nrecs + 1
Closed == i' = i + 1

\* C3, as stated: with the window open at s, a record with endTime >= s + W
\* closes the window (the start becomes s + W) and one with endTime < s + W does
\* not; the first record only opens the window.
C3_AsStated ==
  [][Received =>
       IF start_time = None THEN ~Closed
       ELSE IF rec'.TIME_LAST >= start_time * TicksPerSec + WTicks
            THEN Closed /\ start_time' = start_time + Aggregation
            ELSE ~Closed]_vars

\* C3, amended: with the window open at s, a record closes the window (the
\* table is detached, the start becomes s + W) exactly when one of its addresses
\* is in the networks and endTime > s + W; a record with endTime <= s + W, or
\* with no address in the networks, leaves the start at s. The first record
\* opens the window at int(endTime) and closes nothing.
C3_Closure ==
  [][Received =>
       LET s == IF start_time = None THEN rec'.TIME_LAST \div TicksPerSec
                ELSE start_time
           inScope == \/ rec'.SRC_IP \in UNION Range(networks)
                      \/ rec'.DST_IP \in UNION Range(networks)
       IN /\ Closed <=> (inScope /\ rec'.TIME_LAST > s * TicksPerSec + WTicks)
          /\ Closed => /\ start_time' = s + Aggregation
                       /\ IPs' = << >>
                       /\ threads' = Append(threads, threads'[Len(threads')])
                       /\ threads'[Len(threads')].start_time = s
          /\ ~Closed => start_time' = s /\ threads' = threads
          /\ start_time = None => ~Closed]_vars

\* a record exactly at the boundary was processed and closed nothing, after an
\* earlier closure
C3_Witness ==
  /\ i >= 1
  /\ Checked(rec)
  /\ rec.TIME_LAST = start_time * TicksPerSec + WTicks

\* the addresses inside the configured networks
InScope == UNION Range(networks)

\* flow count of an address in a table, 0 when it has no entry
NFlows(tbl, a) == IF Has(tbl, a) THEN tbl[Idx(tbl, a)].n_flows ELSE 0

\* directed updates a record owes to address a
Owed(r, a) == (IF r.SRC_IP = a /\ a \in InScope THEN 1 ELSE 0)
              + (IF r.DST_IP = a /\ a \in InScope THEN 1 ELSE 0)

\* the table a step of the loop folded its record into: the one handed to the
\* thread it started, or else the table still open
FoldedInto == IF Closed THEN threads'[Len(threads')].IPs ELSE IPs'

\* C4: every directed update of a record lands in the table that was current
\* when the record arrived; when the record closes the window that table is
\* detached whole and the new table holds nothing of the record, and the tables
\* detached earlier get nothing of it.
C4_Indivisible ==
  [][Received =>
       /\ \A a \in Addr : NFlows(FoldedInto, a) = NFlows(IPs, a) + Owed(rec', a)
       /\ Closed => IPs' = << >>
       /\ \A t \in 1..Len(threads) : threads'[t].IPs = threads[t].IPs]_vars

\* a record with both addresses in the networks closed a window: both updates
\* are in the detached table and the open table is empty
C4_Witness ==
  /\ i >= 1
  /\ Owed(rec, rec.SRC_IP) = 1 /\ Owed(rec, rec.DST_IP) = 1
  /\ IPs = << >>
  /\ {rec.SRC_IP, rec.DST_IP} \subseteq Keys(threads[Len(threads)].IPs0)

\* C5: a record adds to the current table exactly the entries of those of its
\* two addresses that are in the networks and not yet present; no address
\* outside the networks is ever a key of a table, and a record with neither
\* address in the networks leaves the table as it is.
C5_Keys ==
  /\ [](/\ Keys(IPs) \subseteq InScope
        /\ \A t \in 1..Len(threads) : Keys(threads[t].IPs) \subseteq InScope)
  /\ [][Received =>
          /\ Keys(FoldedInto) = Keys(IPs) \cup ({rec'.SRC_IP, rec'.DST_IP} \cap InScope)
          /\ Len(FoldedInto) = Cardinality(Keys(FoldedInto))
          /\ {rec'.SRC_IP, rec'.DST_IP} \cap InScope = {} => IPs' = IPs /\ ~Closed]_vars

\* the source of the last record is outside the networks and only its
\* destination got an entry
C5_Witness ==
  /\ rec.SRC_IP = OutPri
  /\ Keys(IPs) = {InPub}

\* a fraction in [0,1]
InUnit(x) == 0 <= x.num /\ x.num <= x.den /\ x.den > 0

\* C6: after pre_export of an object that keeps a nonzero flow count, the four
\* ratios lie in [0,1]; before it, each numerator is between 0 and the total it
\* is divided by.
C6_Ratios ==
  /\ dp_pc = "live" =>
       /\ dp.tcp_udp_ratio_packets.num \in 0..dp.n_packets
       /\ dp.dir_ratio_packets.num \in 0..dp.n_packets
       /\ dp.tcp_udp_ratio_bytes.num \in 0..dp.n_bytes
       /\ dp.dir_ratio_bytes.num \in 0..dp.n_bytes
  /\ (dp_pc = "exported" /\ dp.n_flows # 0) =>
       /\ InUnit(dp.tcp_udp_ratio_packets)
       /\ InUnit(dp.tcp_udp_ratio_bytes)
       /\ InUnit(dp.dir_ratio_packets)
       /\ InUnit(dp.dir_ratio_bytes)

C6_Witness ==
  /\ dp_pc = "exported"
  /\ dp.n_flows = 2
  /\ dp.dir_ratio_packets = [num |-> 1, den |-> 3]
  /\ dp.tcp_udp_ratio_bytes = [num |-> 1, den |-> 2]

\* C7: before pre_export, the flow count is the number of update calls, the
\* packet total the sum of packets + packets_rev over them and the byte total
\* the sum of bytes + bytes_rev.
C7_Totals ==
  dp_pc = "live" =>
    /\ dp.n_flows = dp_calls.n
    /\ dp.n_packets = dp_calls.packets
    /\ dp.n_bytes = dp_calls.bytes

C7_Witness ==
  /\ dp_pc = "live"
  /\ dp_calls.n = 2
  /\ dp_calls.packets = 3
  /\ dp_calls.bytes = 1

\* C8: after pre_export of an active object, the public-destination count is
\* the number of distinct public peers recorded and the private-destination
\* count the number of distinct private peers recorded.
C8_PeerCounts ==
  (dp_pc = "exported" /\ dp.n_flows # 0) =>
    /\ dp.n_dest_ip_pub.n = Cardinality({p \in dp_calls.peers : ~is_private(p)})
    /\ dp.n_dest_ip_pri.n = Cardinality({p \in dp_calls.peers : is_private(p)})

\* entry k of the table a thread was handed has a forward packet sum of zero
OnlyDestination(t, k) == threads[t].IPs0[k].dir_ratio_packets.num = 0

\* the ad_metrics rows and the ip_address rows a thread built for an address
DataRowsOf(t, a) ==
  IF a \in DOMAIN threads[t].ip_codes
  THEN {j \in 1..Len(threads[t].data) :
          threads[t].data[j].id_ip = threads[t].ip_codes[a]}
  ELSE {}
NewRowsOf(t, a) == {j \in 1..Len(threads[t].tmp) : threads[t].tmp[j][2] = a}

C10_AsnCount ==
  (dp_pc = "exported" /\ dp.n_flows # 0 /\ asndb.fails = {}) =>
    dp.n_dest_asn =
      Cardinality({asndb.asn[p] : p \in {q \in dp_calls.peers : ~is_private(q)}}
                  \ {None})

\* C11: after pre_export of an active object whose peers are all public, the
\* distinct-AS count is the number of distinct AS numbers other than None that
\* the lookup returns on the peers whose lookup does not raise, wherever in the
\* order of the lookups the raising ones come.
C11_LookupFailure ==
  (dp_pc = "exported" /\ dp.n_flows # 0
     /\ \A p \in dp_calls.peers : ~is_private(p)) =>
    dp.n_dest_asn =
      Cardinality({asndb.asn[p] : p \in dp_calls.peers \ asndb.fails} \ {None})

\* C12: whatever the export threads are doing, the loop can take the next
\* record the source delivers; this holds right after a closure too, when the
\* thread just started has not run yet.
C12_NeverBlocked ==
  mainpc = "loop" =>
    \A r \in WindowFlows : rec.TIME_LAST <= r.TIME_LAST => ENABLED Recv(r)

\* records were folded into the new table while the thread of the window
\* before has not started its work and an older thread is still waiting for
\* the database
C12_Witness ==
  /\ mainpc = "loop"
  /\ Len(threads) >= 2
  /\ threads[1].pc = "get_ips"
  /\ threads[2].pc = "aggregate"
  /\ IPs # << >>

\* the ad_metrics rows written for the window of thread t
RowsOfWindow(t) ==
  {j \in 1..Len(ad_metrics) : ad_metrics[j].time = utc_format(threads[t].start_time)}

\* C13: a thread the database failed has ended and stays as it is, and no
\* ad_metrics row of its window is written from then on; the step on which
\* the database fails it changes neither the loop's state (table, window start,
\* thread counter), nor the database, nor any other thread.
C13_SinkFailure ==
  /\ [](\A t \in 1..Len(threads) :
          threads[t].exc = "OperationalError" => threads[t].pc = "raised")
  /\ [][\A t \in 1..Len(threads) :
          /\ threads[t].pc = "raised" => threads'[t] = threads[t]
          /\ threads[t].exc = "OperationalError" =>
               {j \in 1..Len(ad_metrics') :
                  ad_metrics'[j].time = utc_format(threads[t].start_time)}
               = RowsOfWindow(t)
          /\ (threads[t].exc = "" /\ threads'[t].exc = "OperationalError") =>
               /\ UNCHANGED << mainpc, IPs, start_time, i, ip_address, ad_metrics >>
               /\ Len(threads') = Len(threads)
               /\ \A u \in 1..Len(threads) : u # t => threads'[u] = threads[u]]_vars

\* the database failed a thread that had its statements built, another thread
\* wrote its rows, and the loop went on folding records
C13_Witness ==
  /\ mainpc = "loop"
  /\ IPs # << >>
  /\ ad_metrics # << >>
  /\ \E t, u \in 1..Len(threads) :
       /\ threads[t].exc = "OperationalError"
       /\ threads[t].data # << >>
       /\ threads[u].pc = "done"

\* the identifiers table ip_address holds for an address, and the addresses it
\* holds under an identifier
CodesOf(a) == {ip_address[j][1] : j \in {k \in 1..Len(ip_address) : ip_address[k][2] = a}}
AddrsOf(c) == {ip_address[j][2] : j \in {k \in 1..Len(ip_address) : ip_address[k][1] = c}}

\* C14: in table ip_address every address has at most one identifier and every
\* identifier at most one address, however the steps of the export threads
\* interleave.
C14_OneToOne ==
  /\ \A a \in Addr : Cardinality(CodesOf(a)) <= 1
  /\ \A j \in 1..Len(ip_address) : Cardinality(AddrsOf(ip_address[j][1])) <= 1

\* every entry of the table of thread t finalized to flow count 0
AllInactive(t) == \A k \in 1..Len(threads[t].IPs) : threads[t].IPs[k].n_flows = 0

\* thread t is past the loop of lines 301-328, unless the database failed it
PastBuild(t) ==
  /\ threads[t].pc \in {"push_ips", "push_data", "done", "raised"}
  /\ threads[t].exc \in {"", "IndexError"}

\* C15: a thread whose table holds only entries of flow count 0 ends without
\* an exception and without submitting a statement; a thread with ad_metrics
\* rows and no new address submits the ad_metrics statement only.
C15_EmptyBatch ==
  \A t \in 1..Len(threads) :
    PastBuild(t) =>
      /\ AllInactive(t) =>
           /\ threads[t].pc = "done"
           /\ threads[t].exc = ""
           /\ RowsOfWindow(t) = {}
      /\ (threads[t].tmp = << >> /\ threads[t].data # << >>) =>
           threads[t].pc \in {"push_data", "done"}

\* the entries of thread t's table that keep a nonzero flow count, and those
\* of them whose address get_ips did not return, both in the table's order
Survivors(t) == SelectSeq(threads[t].IPs, LAMBDA d : d.n_flows # 0)
NewOnes(t) == SelectSeq(Survivors(t), LAMBDA d : d.ip \notin DOMAIN threads[t].codes0)
PosIn(seq, a) == CHOOSE k \in 1..Len(seq) : seq[k].ip = a

\* C16: whatever table ip_address holds, a thread with a nonempty table gets
\* its identifiers: no thread ends in get_ips' max(); and once the statements
\* are built, an address get_ips returned has the identifier get_ips returned
\* for it, the k-th address it did not return has max + k (max the largest
\* identifier returned), the INSERT INTO ip_address lists exactly these new
\* pairs in order, and the ad_metrics rows carry these identifiers.
C16_Identifiers ==
  \A t \in 1..Len(threads) :
    /\ threads[t].exc # "ValueError"
    /\ (threads[t].pc \in {"push_ips", "push_data", "done"}
          \/ (threads[t].exc = "OperationalError" /\ threads[t].data # << >>)) =>
         LET max == max_code(threads[t].codes0)
             code(a) == IF a \in DOMAIN threads[t].codes0 THEN threads[t].codes0[a]
                        ELSE max + PosIn(NewOnes(t), a)
         IN /\ Len(threads[t].tmp) = Len(NewOnes(t))
            /\ \A k \in 1..Len(NewOnes(t)) :
                 threads[t].tmp[k] = << max + k, NewOnes(t)[k].ip >>
            /\ Len(threads[t].data) = Len(Survivors(t))
            /\ \A k \in 1..Len(Survivors(t)) :
                 threads[t].data[k].id_ip = code(Survivors(t)[k].ip)

\* C17: a record starts at most one thread and moves the window start by
\* exactly one window length when it does, however far its end-time is past
\* the window; and a record with an address in the networks whose end-time is
\* beyond the window start plus W starts one, also right after a closure.
C17_OneWindowPerClosure ==
  [][Received =>
       LET s == IF start_time = None THEN int_of(rec'.TIME_LAST) ELSE start_time
       IN /\ i' \in {i, i + 1}
          /\ Len(threads') = Len(threads) + (i' - i)
          /\ start_time' = s + (i' - i) * Aggregation
          /\ (Checked(rec') /\ rec'.TIME_LAST > (s + Aggregation) * TicksPerSec) =>
               i' = i + 1]_vars

\* the second and the third record each closed one window, the third more than
\* two window lengths after the first record
C17_Witness ==
  /\ nrecs = 3
  /\ i = 2
  /\ start_time = int_of(firstTime) + 2 * Aggregation
  /\ rec.TIME_LAST - firstTime > 2 * WTicks

\* the entry of an address in a table; a fresh object when it has none
EntryOf(tbl, a) == IF Has(tbl, a) THEN tbl[Idx(tbl, a)] ELSE DataPointIP(a)
PeersOf(d) == Range(d.n_dest_ip_pri.items) \cup Range(d.n_dest_ip_pub.items)

\* what one directed update adds to entry d0, giving d1: a peer, a port, the
\* forward counts and the totals
Directed(d0, d1, peer, port, fwdPackets, fwdBytes, packets, bytes) ==
  /\ PeersOf(d1) = PeersOf(d0) \cup {peer}
  /\ Range(d1.n_dest_ports.items) = Range(d0.n_dest_ports.items) \cup {port}
  /\ d1.dir_ratio_packets = FracAdd(d0.dir_ratio_packets, fwdPackets)
  /\ d1.dir_ratio_bytes = FracAdd(d0.dir_ratio_bytes, fwdBytes)
  /\ d1.n_packets = d0.n_packets + packets
  /\ d1.n_bytes = d0.n_bytes + bytes
  /\ d1.n_flows = d0.n_flows + 1

\* C18: a record with both addresses in the networks gives the source's entry
\* the destination as peer, the destination port and PACKETS / BYTES as forward
\* counts, and the destination's entry the source as peer, the source port and
\* PACKETS_REV / BYTES_REV as forward counts; the totals of both entries grow
\* by PACKETS + PACKETS_REV and BYTES + BYTES_REV.
C18_Mirror ==
  [][(Received /\ rec'.SRC_IP \in InScope /\ rec'.DST_IP \in InScope
        /\ rec'.SRC_IP # rec'.DST_IP) =>
       LET r == rec'
           packets == r.PACKETS + r.PACKETS_REV
           bytes == r.BYTES + r.BYTES_REV
       IN /\ Directed(EntryOf(IPs, r.SRC_IP), EntryOf(FoldedInto, r.SRC_IP),
                      r.DST_IP, r.DST_PORT, r.PACKETS, r.BYTES, packets, bytes)
          /\ Directed(EntryOf(IPs, r.DST_IP), EntryOf(FoldedInto, r.DST_IP),
                      r.SRC_IP, r.SRC_PORT, r.PACKETS_REV, r.BYTES_REV, packets, bytes)]_vars

\* a record with packets one way only was folded into entries of both its
\* addresses: the forward counts and the ports of the two entries differ, the
\* totals agree
C18_Witness ==
  /\ rec.SRC_IP = InPri /\ rec.DST_IP = InPub
  /\ rec.PACKETS = 1 /\ rec.PACKETS_REV = 0
  /\ Has(IPs, InPri) /\ Has(IPs, InPub)
  /\ EntryOf(IPs, InPri).dir_ratio_packets = Whole(1)
  /\ EntryOf(IPs, InPub).dir_ratio_packets = Whole(0)
  /\ EntryOf(IPs, InPri).n_dest_ports.items = << 80 >>
  /\ EntryOf(IPs, InPub).n_dest_ports.items = << 53 >>
  /\ EntryOf(IPs, InPri).n_packets = 1 /\ EntryOf(IPs, InPub).n_packets = 1

\* C19: with the records in non-decreasing order of end-time, a record folded
\* into the table of the window starting at s has an end-time of at least s;
\* and the record folded into a table on the step that hands the table to a
\* thread, whose end-time is the largest in that table, has an end-time below
\* s + W.
C19_Windows ==
  [][(Received /\ Checked(rec')) =>
       LET s == IF start_time = None THEN int_of(rec'.TIME_LAST) ELSE start_time
       IN /\ s * TicksPerSec <= rec'.TIME_LAST
          /\ Closed => rec'.TIME_LAST < (s + Aggregation) * TicksPerSec]_vars

\* C20: an object that update was called on and pre_export then ran on had a
\* nonzero packet total and a nonzero byte total at the divisions of lines
\* 168-171, and pre_export did not raise.
C20_NoZeroDivision ==
  dp_pc \in {"exported", "raised"} =>
    /\ dp_calls.n >= 1
    /\ dp.n_packets # 0
    /\ dp.n_bytes # 0
    /\ dp_pc # "raised"

\* C21: the table a thread is handed is the loop's table at the closure, and
\* until the thread finalizes it, it stays so; a record received changes no
\* table of a thread started before and leaves the loop's table empty when it
\* closes the window; a step of a thread leaves the loop's table as it is.
C21_Independent ==
  /\ [](\A t \in 1..Len(threads) :
          threads[t].pc = "aggregate" => threads[t].IPs = threads[t].IPs0)
  /\ [][/\ Received =>
             /\ \A t \in 1..Len(threads) : threads'[t] = threads[t]
             /\ Closed => /\ IPs' = << >>
                          /\ threads'[Len(threads')].IPs = record_flow(IPs, rec')
        /\ (~Received /\ threads' # threads) => IPs' = IPs]_vars

\* the first thread has finalized its table, the second has not started, and
\* the loop has folded a record into the new table since
C21_Witness ==
  /\ Len(threads) >= 2
  /\ threads[1].pc # "aggregate" /\ threads[1].IPs # threads[1].IPs0
  /\ threads[2].pc = "aggregate"
  /\ IPs # << >>

\* C22, as stated: every record received whose end-time is past the window
\* boundary closes the window, also one with neither address in the networks.
C22_AsStated ==
  [][(Received /\ start_time # None
        /\ rec'.TIME_LAST > (start_time + Aggregation) * TicksPerSec) => Closed]_vars

\* C22, amended: the end-time of a record is compared with the window boundary
\* only when one of its addresses is in the networks. A record with neither
\* address in the networks closes nothing, whatever its end-time, and leaves
\* the table, the threads and the window start as they are, except that as
\* the first record received it sets the window start; a record with an
\* address in the networks and an end-time past the boundary closes the window.
C22_Discarded ==
  [][Received =>
       LET s == IF start_time = None THEN int_of(rec'.TIME_LAST) ELSE start_time
           inScope == rec'.SRC_IP \in InScope \/ rec'.DST_IP \in InScope
       IN /\ ~inScope => /\ ~Closed
                         /\ IPs' = IPs
                         /\ threads' = threads
                         /\ start_time' = s
          /\ (inScope /\ rec'.TIME_LAST > (s + Aggregation) * TicksPerSec) => Closed]_vars

\* the record received last has neither address in the networks and an
\* end-time past the boundary of the open window, which holds records
C22_Witness ==
  /\ rec.SRC_IP \notin InScope /\ rec.DST_IP \notin InScope
  /\ nrecs >= 2
  /\ IPs # << >>
  /\ rec.TIME_LAST > (start_time + Aggregation) * TicksPerSec

\* C23: the loop can take the terminal record whatever the threads are doing;
\* the step that ends the loop changes no thread, and once the loop has ended
\* no record is received, no thread is started, and the table and the window
\* start stay as they are, while the threads still running go on.
C23_Terminal ==
  /\ [](mainpc = "loop" => ENABLED EndOfStream)
  /\ [][/\ (mainpc = "loop" /\ mainpc' = "ended") =>
             UNCHANGED << threads, IPs, start_time, i, nrecs, ip_address, ad_metrics >>
        /\ mainpc = "ended" =>
             /\ mainpc' = "ended"
             /\ UNCHANGED << nrecs, rec, i, IPs, start_time >>
             /\ Len(threads') = Len(threads)]_vars

\* the loop has ended with records in the open table while a thread has not
\* finished and another one has written its rows
C23_Witness ==
  /\ mainpc = "ended"
  /\ IPs # << >>
  /\ \E t, u \in 1..Len(threads) :
       /\ threads[t].pc \in {"aggregate", "get_ips", "build", "push_ips", "push_data"}
       /\ threads[u].pc = "done"

\* C24: every entry of the loop's table has a flow count of at least 1; a
\* record received keeps every entry of the table it is folded into, with a
\* flow count, a packet total and a byte total not below those before; and
\* without a record received the loop's table does not change.
C24_Counters ==
  /\ [](\A k \in 1..Len(IPs) : IPs[k].n_flows >= 1)
  /\ [][/\ Received =>
             \A a \in Keys(IPs) :
               /\ Has(FoldedInto, a)
               /\ EntryOf(FoldedInto, a).n_flows >= EntryOf(IPs, a).n_flows
               /\ EntryOf(FoldedInto, a).n_packets >= EntryOf(IPs, a).n_packets
               /\ EntryOf(FoldedInto, a).n_bytes >= EntryOf(IPs, a).n_bytes
        /\ ~Received => IPs' = IPs]_vars

\* the record received last, without packets or bytes, was counted in an
\* entry that had packets before: two flows, one packet
C24_Witness ==
  /\ rec.PACKETS + rec.PACKETS_REV = 0
  /\ \E k \in 1..Len(IPs) :
       /\ IPs[k].ip \in {rec.SRC_IP, rec.DST_IP}
       /\ IPs[k].n_flows = 2
       /\ IPs[k].n_packets = 1

\* C25: a thread is started only by a record received that closes a window,
\* on the table that record was folded into; the end of the loop starts none
\* and leaves the open table as it is; every ad_metrics row carries the window
\* start of a thread, and none the start of the window still open.
C25_OpenWindowLost ==
  /\ [](/\ \A j \in 1..Len(ad_metrics) :
             \E t \in 1..Len(threads) :
               ad_metrics[j].time = utc_format(threads[t].start_time)
        /\ start_time # None =>
             \A j \in 1..Len(ad_metrics) : ad_metrics[j].time # utc_format(start_time))
  /\ [][/\ Len(threads') # Len(threads) =>
             /\ Received /\ Closed
             /\ threads'[Len(threads')].IPs = record_flow(IPs, rec')
        /\ mainpc' = "ended" => (threads' = threads \/ mainpc = "ended") /\ IPs' = IPs]_vars

\* the loop has ended and every thread has finished: rows were written, and
\* the records of the open table are in no thread
C25_Witness ==
  /\ mainpc = "ended"
  /\ IPs # << >>
  /\ ad_metrics # << >>
  /\ \A t \in 1..Len(threads) : threads[t].pc \in {"done", "raised"}
====
